---- MODULE Spec2Model ----
(***************************************************************************)
(* Model of proxmox_vm_agent.py: the configuration loader (load_config,   *)
(* create_config, main), the chat round (chat, send_message_to_claude,     *)
(* process_claude_response) and the interactive loop (interactive_mode).   *)
(*                                                                         *)
(* A Python str is modelled as a sequence of tokens.  The whitespace       *)
(* tokens are " " and "\n"; every other token is a run of text that        *)
(* neither starts nor ends with whitespace.  The token ERR is the cross    *)
(* mark character the program uses as its error marker, OKM the check      *)
(* mark and CLOCK the alarm clock.                                         *)
(***************************************************************************)
EXTENDS Integers, Sequences, FiniteSets, TLC

VARIABLES
    pc,          \* position of the process: shell, nokey, oneshot, interactive, exited, crashed, processing, processed
    history,     \* self.conversation_history
    payload,     \* "messages" of the last request payload built
    result,      \* return value of the last chat / process_claude_response
    executed,    \* ids of the bash blocks handed to subprocess.run in the last round
    netKind,     \* how the transport of the last round ended
    shapeError,  \* the last round ended in the outer except of process_claude_response
    lastEvent,   \* what the last step of the session driver was
    lastInput,   \* the raw line read by the last input(), or the one-shot message
    clearState,  \* none, cleared (since the last clear no round ran), first_round
    rounds,      \* number of chat rounds started
    blocks,      \* number of content blocks received from the API
    api,         \* the reply the remote API holds for the request in flight
    configFile,  \* ~/.config/claude-proxmox/config.json
    env,         \* ANTHROPIC_API_KEY
    createLog,   \* the create_config calls made so far: key typed and outcome
    apiKey       \* self.api_key of the agent

vars == <<pc, history, payload, result, executed, netKind, shapeError, lastEvent,
          lastInput, clearState, rounds, blocks, api, configFile, env, createLog, apiKey>>

sessionVars == <<history, payload, result, executed, netKind, shapeError, lastEvent,
                 lastInput, clearState, rounds, blocks, api>>

configVars == <<configFile, env, createLog>>

-----------------------------------------------------------------------------
(* Bounds *)

MaxRounds == 2       \* chat rounds of one session
MaxBlocks == 2       \* content blocks the API sends in one session
MaxSetups == 2       \* runs of "setup" before the program is started
MaxTextLen == 2      \* tokens of one text block (text-only responses)
MaxTextBlocks == 2   \* blocks of one text-only response

-----------------------------------------------------------------------------
(* Strings *)

ERR == "[x]"
OKM == "[v]"
CLOCK == "[clock]"

Whitespace == {" ", "\n"}

RECURSIVE LStrip(_)
LStrip(s) == IF s # <<>> /\ Head(s) \in Whitespace THEN LStrip(Tail(s)) ELSE s

RECURSIVE RStrip(_)
RStrip(s) == IF s # <<>> /\ s[Len(s)] \in Whitespace
             THEN RStrip(SubSeq(s, 1, Len(s) - 1))
             ELSE s

\* str.strip()
Strip(s) == RStrip(LStrip(s))

LowerToken(t) ==
    CASE t = "EXIT" -> "exit"
      [] t = "Exit" -> "exit"
      [] t = "CLEAR" -> "clear"
      [] t = "Hi" -> "hi"
      [] OTHER -> t

Lower_identity(s) == s

\* str.lower()
Lower(s) == [i \in 1..Len(s) |-> LowerToken(s[i])]

\* str.startswith(marker) for a one-character marker
StartsWith(s, marker) == Len(s) >= 1 /\ s[1] = marker

SeqsUpTo(S, n) == UNION {[1..k -> S] : k \in 0..n}

-----------------------------------------------------------------------------
(* Turns of the conversation history *)

UserTurn(message) ==
    [role |-> "user", type |-> "text", tool_use_id |-> "", content |-> message]

AssistantTurn(text) ==
    [role |-> "assistant", type |-> "text", tool_use_id |-> "", content |-> text]

\* {"role": "user", "content": [{"type": "tool_result", "tool_use_id": ..., "content": ...}]}
ToolResultTurn(id, text) ==
    [role |-> "user", type |-> "tool_result", tool_use_id |-> id, content |-> text]

-----------------------------------------------------------------------------
(* API responses, content blocks and command outcomes *)

\* A content block of the response.  missing is the set of keys the block
\* lacks; reading one of them raises KeyError.
Block(type, text, name, id, missing) ==
    [type |-> type, text |-> text, name |-> name, id |-> id, missing |-> missing]

TextBlock(text) == Block("text", text, "", "", {})
BashBlock(id) == Block("tool_use", <<>>, "bash", id, {})

\* The parsed JSON body of a reply, or the error descriptor of line 88.
OkReply(content) ==
    [kind |-> "ok", hasContent |-> TRUE, content |-> content, error |-> <<>>]
NoContentReply ==
    [kind |-> "ok", hasContent |-> FALSE, content |-> <<>>, error |-> <<>>]
\* requests raises a RequestException (connection error, HTTP failure status)
FailedReply(message) ==
    [kind |-> "request_exception", hasContent |-> FALSE, content |-> <<>>, error |-> message]
\* requests.post raises something that is no RequestException
RaisingReply ==
    [kind |-> "other_exception", hasContent |-> FALSE, content |-> <<>>, error |-> <<>>]
\* Ctrl-C while the request is in flight
InterruptedReply ==
    [kind |-> "keyboard_interrupt", hasContent |-> FALSE, content |-> <<>>, error |-> <<>>]
NoReply ==
    [kind |-> "none", hasContent |-> FALSE, content |-> <<>>, error |-> <<>>]

\* What subprocess.run does with one command.
Exited(code, out, err) ==
    [kind |-> "exit", returncode |-> code, stdout |-> out, stderr |-> err]
TimedOut == [kind |-> "timeout", returncode |-> 0, stdout |-> <<>>, stderr |-> <<>>]
\* subprocess.run raises an exception with message err
LaunchFailed(err) == [kind |-> "error", returncode |-> 0, stdout |-> <<>>, stderr |-> err]
NotRun == [kind |-> "none", returncode |-> 0, stdout |-> <<>>, stderr |-> <<>>]

-----------------------------------------------------------------------------
(* send_message_to_claude *)

\* "messages" of the payload (line 64)
BuildMessages(hist, message) == hist \o <<UserTurn(message)>>

\* The response dictionary send_message_to_claude returns (lines 83-88).
TransportResult(reply) ==
    IF reply.kind = "ok"
    THEN [hasError |-> FALSE, error |-> <<>>,
          hasContent |-> reply.hasContent, content |-> reply.content]
    ELSE [hasError |-> TRUE, error |-> <<"API request failed:", " ">> \o reply.error,
          hasContent |-> FALSE, content |-> <<>>]

-----------------------------------------------------------------------------
(* process_claude_response *)

\* An exception leaves the for loop; the outer except formats it (line 140).
Raise(st, what) == [st EXCEPT !.exc = what]

AppendToolResult_replace(hist, turn) == <<turn>>

\* self.conversation_history.append({"role": "user", "content": [tool_result]})
AppendToolResult(hist, turn) == Append(hist, turn)

ToolResultContent(o) ==
    <<"Exit code:", " ", ToString(o.returncode), "\n", "Stdout:", " ">> \o o.stdout
        \o <<"\n", "Stderr:", " ">> \o o.stderr

\* Lines 109-135: the inner try around subprocess.run.
RunCommand(st, block, o) ==
    LET ran == [st EXCEPT !.executed = Append(@, block.id)] IN
    IF o.kind = "timeout"
    THEN [ran EXCEPT !.result_text = @ \o <<CLOCK, " ", "Command timed out", "\n">>]
    ELSE IF o.kind = "error"
    THEN [ran EXCEPT !.result_text =
              @ \o <<ERR, " ", "Error executing command:", " ">> \o o.stderr \o <<"\n">>]
    ELSE IF "id" \in block.missing
    THEN [ran EXCEPT !.result_text =
              @ \o <<ERR, " ", "Error executing command:", " ", "'id'", "\n">>]
    ELSE LET turn == ToolResultTurn(block.id, ToolResultContent(o)) IN
         [ran EXCEPT
            !.history = AppendToolResult(@, turn),
            !.result_text =
                IF o.returncode = 0
                THEN @ \o <<OKM, " ", "Command successful:", "\n">> \o o.stdout \o <<"\n">>
                ELSE @ \o <<ERR, " ", "Command failed (exit", " ", ToString(o.returncode),
                            "):", "\n">> \o o.stderr \o <<"\n">>]

TextStep_nonewline(st, block) == [st EXCEPT !.result_text = @ \o block.text]

\* result_text += block["text"] + "\n"
TextStep(st, block) == [st EXCEPT !.result_text = @ \o block.text \o <<"\n">>]

\* One iteration of the for loop (lines 99-135).
ProcessBlock(st, block, o) ==
    IF "type" \in block.missing THEN Raise(st, "'type'")
    ELSE IF block.type = "text"
    THEN IF "text" \in block.missing THEN Raise(st, "'text'") ELSE TextStep(st, block)
    ELSE IF block.type = "tool_use"
    THEN IF "name" \in block.missing THEN Raise(st, "'name'")
         ELSE IF block.name = "bash"
         THEN IF "command" \in block.missing THEN Raise(st, "'command'")
              ELSE RunCommand(st, block, o)
         ELSE st
    ELSE st

RECURSIVE ProcessBlocks(_, _, _, _)
ProcessBlocks(st, content, outcomes, i) ==
    IF i > Len(content) \/ st.exc # ""
    THEN st
    ELSE ProcessBlocks(ProcessBlock(st, content[i], outcomes[i]), content, outcomes, i + 1)

\* process_claude_response: the returned string, the history it leaves, the
\* commands it ran and whether the outer except caught an exception.
process_claude_response(hist, response, outcomes) ==
    LET st0 == [history |-> hist, result_text |-> <<>>, executed |-> <<>>, exc |-> ""] IN
    IF response.hasError
    THEN [result |-> <<ERR, " ", "Error:", " ">> \o response.error,
          history |-> hist, executed |-> <<>>, shapeError |-> FALSE]
    ELSE IF ~response.hasContent
    THEN [result |-> <<ERR, " ", "Error processing response:", " ", "'content'">>,
          history |-> hist, executed |-> <<>>, shapeError |-> TRUE]
    ELSE LET st == ProcessBlocks(st0, response.content, outcomes, 1) IN
         IF st.exc # ""
         THEN [result |-> <<ERR, " ", "Error processing response:", " ", st.exc>>,
               history |-> st.history, executed |-> st.executed, shapeError |-> TRUE]
         ELSE [result |-> Strip(st.result_text),
               history |-> st.history, executed |-> st.executed, shapeError |-> FALSE]

-----------------------------------------------------------------------------
(* chat *)

IsErrorResult_never(res) == FALSE

\* result.startswith(the error marker), line 149
IsErrorResult(res) == StartsWith(res, ERR)

AppendUser_skip(hist, message) == hist

\* self.conversation_history.append({"role": "user", "content": message}), line 144
AppendUser(hist, message) == Append(hist, UserTurn(message))

\* chat(message) with the reply the transport gets and the outcomes of the
\* commands it runs.  raised: an exception leaves chat (after line 144).
chat(hist, message, reply, outcomes) ==
    LET h1 == AppendUser(hist, message)
        messages == BuildMessages(h1, message)
    IN
    IF reply.kind \in {"other_exception", "keyboard_interrupt"}
    THEN [history |-> h1, payload |-> messages, result |-> <<>>, executed |-> <<>>,
          shapeError |-> FALSE, raised |-> TRUE]
    ELSE LET p == process_claude_response(h1, TransportResult(reply), outcomes) IN
         [history |-> IF IsErrorResult(p.result)
                      THEN p.history
                      ELSE Append(p.history, AssistantTurn(p.result)),
          payload |-> messages, result |-> p.result, executed |-> p.executed,
          shapeError |-> p.shapeError, raised |-> FALSE]

-----------------------------------------------------------------------------
(* Configuration loader *)

AbsentFile == [state |-> "absent", has_api_key |-> FALSE, api_key |-> <<>>]
\* a file json.load cannot parse
CorruptFile == [state |-> "corrupt", has_api_key |-> FALSE, api_key |-> <<>>]
\* {"api_key": key}
KeyFile(key) == [state |-> "json", has_api_key |-> TRUE, api_key |-> key]
\* a JSON object without "api_key"
OtherFile == [state |-> "json", has_api_key |-> FALSE, api_key |-> <<>>]

UnsetEnv == [set |-> FALSE, value |-> <<>>]
SetEnv(value) == [set |-> TRUE, value |-> value]

NoConfig == [none |-> TRUE, has_api_key |-> FALSE, api_key |-> <<>>]
Config(has, key) == [none |-> FALSE, has_api_key |-> has, api_key |-> key]

load_config_envfirst(file, environ) ==
    IF environ.set /\ environ.value # <<>>
    THEN Config(TRUE, environ.value)
    ELSE IF file.state = "json" THEN Config(file.has_api_key, file.api_key) ELSE NoConfig

\* load_config(): the parsed file if there is one, else the environment
\* variable if it is set and not empty, else None.
load_config(file, environ) ==
    IF file.state = "json"
    THEN Config(file.has_api_key, file.api_key)
    ELSE IF environ.set /\ environ.value # <<>>
    THEN Config(TRUE, environ.value)
    ELSE NoConfig

\* The file create_config() leaves: typed is the line read by input(),
\* outcome says whether open() and json.dump() succeed.
create_config(file, typed, outcome) ==
    IF outcome = "ok" THEN KeyFile(Strip(typed))
    ELSE IF outcome = "open_fails" THEN file
    ELSE CorruptFile

\* not config or 'api_key' not in config  (line 229)
NoApiKey(config) == config.none \/ ~config.has_api_key

-----------------------------------------------------------------------------
(* Inputs *)

\* The id of the tool-use block at position i of a response.
ToolId(i) == IF i = 1 THEN "toolu_1" ELSE IF i = 2 THEN "toolu_2"
             ELSE IF i = 3 THEN "toolu_3" ELSE "toolu_n"

\* The kinds of content block a reply is made of, with what running the
\* command of a bash block does.
StepKinds ==
    {"text", "marked_text", "bash_ok", "bash_fails", "bash_timeout", "bash_error",
     "bash_no_id", "other_tool", "no_type"}

BlockOf(kind, i) ==
    CASE kind = "text" -> TextBlock(<<"ok">>)
      [] kind = "marked_text" -> TextBlock(<<ERR, " ", "no">>)
      [] kind = "bash_no_id" -> Block("tool_use", <<>>, "bash", "", {"id"})
      [] kind = "other_tool" -> Block("tool_use", <<>>, "python", ToolId(i), {})
      [] kind = "no_type" -> Block("", <<>>, "", "", {"type"})
      [] OTHER -> BashBlock(ToolId(i))

OutcomeOf(kind) ==
    CASE kind \in {"bash_ok", "bash_no_id"} -> Exited(0, <<"out", "\n">>, <<>>)
      [] kind = "bash_fails" -> Exited(1, <<>>, <<"err", "\n">>)
      [] kind = "bash_timeout" -> TimedOut
      [] kind = "bash_error" -> LaunchFailed(<<"boom">>)
      [] OTHER -> NotRun

\* The replies of at most n content blocks.
Scripts(n) == SeqsUpTo(StepKinds, n)

ScriptReply(s) == OkReply([i \in 1..Len(s) |-> BlockOf(s[i], i)])
ScriptOutcomes(s) == [i \in 1..Len(s) |-> OutcomeOf(s[i])]

OtherReplies == {NoContentReply, FailedReply(<<"refused">>), RaisingReply, InterruptedReply}

\* the lines input() returns
Lines ==
    {<<"exit">>, <<"EXIT">>, <<" ", "Exit", " ">>,
     <<"clear">>, <<"CLEAR", " ">>,
     <<>>, <<" ">>,
     <<"hi">>, <<" ", "hi">>}

\* ' '.join(sys.argv[1:])
Commands == {<<"hi">>, <<" ", "hi">>}

TypedKeys == {<<"k1">>, <<" ", "k1", " ">>, <<"k2">>, <<>>}

InitialFiles == {AbsentFile, CorruptFile, OtherFile, KeyFile(<<"k0">>)}

Envs == {UnsetEnv, SetEnv(<<>>), SetEnv(<<"ke">>)}

TextChars == {"a", " ", "\n"}

TextReplies ==
    {OkReply(c) :
        c \in SeqsUpTo({TextBlock(t) : t \in SeqsUpTo(TextChars, MaxTextLen)}, MaxTextBlocks)}

-----------------------------------------------------------------------------
(* main *)

\* main() with argv[1] = "setup": create_config()
MainSetup(typed, outcome) ==
    /\ pc = "shell"
    /\ Len(createLog) < MaxSetups
    /\ configFile' = create_config(configFile, typed, outcome)
    /\ createLog' = Append(createLog, [key |-> typed, ok |-> (outcome = "ok")])
    /\ UNCHANGED <<pc, env, apiKey, sessionVars>>

\* main() up to the construction of the agent (lines 227-233); mode is
\* "oneshot" if there are arguments and "interactive" if there are none.
MainStart(mode) ==
    /\ pc = "shell"
    /\ LET config == load_config(configFile, env) IN
       IF NoApiKey(config)
       THEN /\ pc' = "nokey"
            /\ UNCHANGED apiKey
       ELSE /\ pc' = mode
            /\ apiKey' = config.api_key
    /\ history' = <<>>
    /\ UNCHANGED <<payload, result, executed, netKind, shapeError, lastEvent,
                   lastInput, clearState, rounds, blocks, api, configVars>>

\* The effect of agent.chat(message) on the session.
Round(message, reply, outcomes, r) ==
    /\ history' = r.history
    /\ payload' = r.payload
    /\ result' = r.result
    /\ executed' = r.executed
    /\ shapeError' = r.shapeError
    /\ netKind' = reply.kind
    /\ rounds' = rounds + 1
    /\ blocks' = blocks + Len(reply.content)
    /\ clearState' = IF clearState = "cleared" THEN "first_round" ELSE "none"
    /\ lastEvent' = IF reply.kind = "keyboard_interrupt" THEN "round_interrupted"
                    ELSE IF r.raised THEN "round_raised" ELSE "round"
    /\ UNCHANGED <<api, configVars, apiKey>>

\* Command mode (lines 235-239): one round, then the process ends; an
\* exception leaving chat ends it with a traceback.
OneShotWith(message, reply, outcomes) ==
    /\ pc = "oneshot"
    /\ blocks + Len(reply.content) <= MaxBlocks
    /\ LET r == chat(history, message, reply, outcomes) IN
       /\ Round(message, reply, outcomes, r)
       /\ pc' = IF r.raised THEN "crashed" ELSE "exited"
    /\ lastInput' = message

OneShot ==
    /\ pc = "oneshot"
    /\ \E message \in Commands :
        \/ \E s \in Scripts(MaxBlocks - blocks) :
               OneShotWith(message, ScriptReply(s), ScriptOutcomes(s))
        \/ \E reply \in OtherReplies : OneShotWith(message, reply, <<>>)

-----------------------------------------------------------------------------
(* interactive_mode: one iteration of the while loop per action *)

IsExit(user_input) == Lower(user_input) = <<"exit">>
IsClear(user_input) == Lower(user_input) = <<"clear">>

Idle(event, line) ==
    /\ lastEvent' = event
    /\ lastInput' = line
    /\ UNCHANGED <<payload, result, executed, netKind, shapeError, rounds, blocks, api,
                   configVars, apiKey>>

\* lines 164-166
ReadExit ==
    \E line \in Lines :
        /\ pc = "interactive"
        /\ IsExit(Strip(line))
        /\ pc' = "exited"
        /\ Idle("exit", line)
        /\ UNCHANGED <<history, clearState>>

\* lines 167-170
ReadClear ==
    \E line \in Lines :
        /\ pc = "interactive"
        /\ ~IsExit(Strip(line))
        /\ IsClear(Strip(line))
        /\ history' = <<>>
        /\ clearState' = "cleared"
        /\ Idle("clear", line)
        /\ UNCHANGED pc

\* lines 171-172
ReadEmpty ==
    \E line \in Lines :
        /\ pc = "interactive"
        /\ ~IsExit(Strip(line))
        /\ ~IsClear(Strip(line))
        /\ Strip(line) = <<>>
        /\ Idle("empty", line)
        /\ UNCHANGED <<pc, history, clearState>>

\* lines 174-176, and the handlers of lines 178-182 for what chat raises
ReadChatWith(line, reply, outcomes) ==
    /\ pc = "interactive"
    /\ rounds < MaxRounds
    /\ blocks + Len(reply.content) <= MaxBlocks
    /\ ~IsExit(Strip(line))
    /\ ~IsClear(Strip(line))
    /\ Strip(line) # <<>>
    /\ LET r == chat(history, Strip(line), reply, outcomes) IN
       /\ Round(Strip(line), reply, outcomes, r)
       /\ pc' = IF reply.kind = "keyboard_interrupt" THEN "exited" ELSE "interactive"
    /\ lastInput' = line

ReadChat ==
    /\ pc = "interactive"
    /\ rounds < MaxRounds
    /\ \E line \in {l \in Lines : ~IsExit(Strip(l)) /\ ~IsClear(Strip(l)) /\ Strip(l) # <<>>} :
        \/ \E s \in Scripts(MaxBlocks - blocks) :
               ReadChatWith(line, ScriptReply(s), ScriptOutcomes(s))
        \/ \E reply \in OtherReplies : ReadChatWith(line, reply, <<>>)

\* KeyboardInterrupt inside input() (lines 178-180)
InputInterrupt ==
    /\ pc = "interactive"
    /\ pc' = "exited"
    /\ Idle("interrupt", <<>>)
    /\ UNCHANGED <<history, clearState>>

\* input() raises an Exception such as EOFError (lines 181-182)
InputError ==
    /\ pc = "interactive"
    /\ Idle("input_error", <<>>)
    /\ UNCHANGED <<pc, history, clearState>>

-----------------------------------------------------------------------------
(* process_claude_response applied to a text-only reply *)

ProcessText ==
    /\ pc = "processing"
    /\ LET p == process_claude_response(history, TransportResult(api),
                                        [i \in 1..Len(api.content) |-> NotRun]) IN
       /\ history' = p.history
       /\ result' = p.result
       /\ executed' = p.executed
       /\ shapeError' = p.shapeError
    /\ pc' = "processed"
    /\ netKind' = api.kind
    /\ UNCHANGED <<payload, lastEvent, lastInput, clearState, rounds, blocks, api,
                   configVars, apiKey>>

-----------------------------------------------------------------------------
(* Specifications *)

SessionStart ==
    /\ result = <<>>
    /\ executed = <<>>
    /\ netKind = "none"
    /\ shapeError = FALSE
    /\ lastEvent = "start"
    /\ lastInput = <<>>
    /\ clearState = "none"

\* No request has been made.
NoRequest ==
    /\ history = <<>>
    /\ payload = <<>>
    /\ rounds = 0
    /\ blocks = 0
    /\ api = NoReply

\* The session: the agent has just been constructed (line 233).
Init ==
    /\ pc \in {"oneshot", "interactive"}
    /\ SessionStart
    /\ NoRequest
    /\ configFile = KeyFile(<<"k0">>)
    /\ env = UnsetEnv
    /\ createLog = <<>>
    /\ apiKey = <<"k0">>

Next ==
    \/ OneShot
    \/ ReadExit
    \/ ReadClear
    \/ ReadEmpty
    \/ ReadChat
    \/ InputInterrupt
    \/ InputError

Spec == Init /\ [][Next]_vars

\* Start-up: the program has not been started; setup may run first.
InitConfig ==
    /\ pc = "shell"
    /\ SessionStart
    /\ NoRequest
    /\ configFile \in InitialFiles
    /\ env \in Envs
    /\ createLog = <<>>
    /\ apiKey = <<>>

NextConfig ==
    \/ \E typed \in TypedKeys, outcome \in {"ok", "open_fails", "dump_fails"} :
           MainSetup(typed, outcome)
    \/ \E mode \in {"oneshot", "interactive"} : MainStart(mode)

SpecConfig == InitConfig /\ [][NextConfig]_vars

\* The first round of a fresh agent, stopped at line 147, with a reply
\* made of text blocks only.
InitText ==
    /\ pc = "processing"
    /\ SessionStart
    /\ history = AppendUser(<<>>, <<"hi">>)
    /\ payload = BuildMessages(history, <<"hi">>)
    /\ rounds = 1
    /\ api \in TextReplies
    /\ blocks = Len(api.content)
    /\ configFile = KeyFile(<<"k0">>)
    /\ env = UnsetEnv
    /\ createLog = <<>>
    /\ apiKey = <<"k0">>

NextText == ProcessText

SpecText == InitText /\ [][NextText]_vars

-----------------------------------------------------------------------------
(* Properties *)

IsPlainUser(turn) == turn.role = "user" /\ turn.type = "text"
IsToolResult(turn) == turn.role = "user" /\ turn.type = "tool_result"
IsAssistant(turn) == turn.role = "assistant"

\* A step of the session driver that ran agent.chat to its return.
RoundDone == lastEvent = "round"

\* Index of the last plain user turn of hist, 0 if there is none.
RECURSIVE LastPlainUser(_, _)
LastPlainUser(hist, i) ==
    IF i = 0 THEN 0
    ELSE IF IsPlainUser(hist[i]) THEN i
    ELSE LastPlainUser(hist, i - 1)

\* The tool_use_ids of the tool-result turns of hist after position from.
ToolResultIds(hist, from) ==
    LET tail == SubSeq(hist, from + 1, Len(hist))
        results == SelectSeq(tail, IsToolResult)
    IN [i \in 1..Len(results) |-> results[i].tool_use_id]

\* The tool-result turns the last round appended.
RoundToolResultIds == ToolResultIds(history, LastPlainUser(history, Len(history)))

HasId(id) == id # ""

RECURSIVE IsSubSeq(_, _)
IsSubSeq(a, b) ==
    IF a = <<>> THEN TRUE
    ELSE IF b = <<>> THEN FALSE
    ELSE IF Head(a) = Head(b) THEN IsSubSeq(Tail(a), Tail(b))
    ELSE IsSubSeq(a, Tail(b))

\* "\n".join(texts)
RECURSIVE JoinLines(_)
JoinLines(texts) ==
    IF texts = <<>> THEN <<>>
    ELSE IF Len(texts) = 1 THEN texts[1]
    ELSE texts[1] \o <<"\n">> \o JoinLines(Tail(texts))

\* C1: after "clear" the history is empty, and the payload of the next chat
\* round holds exactly one message, the new user turn.
C1_PayloadAfterClear ==
    /\ lastEvent = "clear" => Len(history) = 0
    /\ (clearState = "first_round" /\ lastEvent \in {"round", "round_raised", "round_interrupted"})
           => payload = <<UserTurn(Strip(lastInput))>>

\* C2: a round whose transport fails returns a string that starts with the
\* error marker, runs no command, and leaves the history it found with the
\* new user turn appended and nothing else.
C2_TransportFailure ==
    [][(rounds' = rounds + 1 /\ netKind' = "request_exception")
          => /\ StartsWith(result', ERR)
             /\ executed' = <<>>
             /\ history' = Append(history, UserTurn(IF pc = "oneshot" THEN lastInput'
                                                    ELSE Strip(lastInput')))]_vars

C2_Witness ==
    /\ lastEvent = "round"
    /\ netKind = "request_exception"
    /\ rounds = 2
    /\ Len(history) > 1

\* C3: every step leaves the history as it is, or extends it keeping the
\* old history as a prefix, or is a "clear" that empties it.
C3_AppendOnly ==
    [][\/ history' = history
       \/ /\ Len(history') > Len(history)
          /\ SubSeq(history', 1, Len(history)) = history
       \/ /\ lastEvent' = "clear"
          /\ history' = <<>>]_vars

C3_Witness ==
    /\ rounds = 2
    /\ lastEvent = "round"
    /\ Len(history) >= 5
    /\ \E i \in 1..Len(history) : IsToolResult(history[i])

\* C4: the tool-result turns a round appends are, in order, one for each
\* bash tool-use block it handled, with that block's id, whatever the
\* command did.
C4_OneResultPerBashBlock ==
    RoundDone => RoundToolResultIds = SelectSeq(executed, HasId)

\* C5: a round ends by appending an assistant turn that carries the returned
\* text exactly when the transport succeeded and the response was processed
\* without a shape error.
C5_AssistantIffProcessed ==
    RoundDone =>
        ((netKind = "ok" /\ ~shapeError)
            <=> history[Len(history)] = AssistantTurn(result))

\* C6: for a reply made of text blocks only, process_claude_response returns
\* the block texts joined with newlines and then stripped, and leaves the
\* history as it found it.
C6_TextOnly ==
    pc = "processed" =>
        /\ result = Strip(JoinLines([i \in 1..Len(api.content) |-> api.content[i].text]))
        /\ history = <<UserTurn(<<"hi">>)>>

C6_Witness ==
    /\ pc = "processed"
    /\ Len(api.content) = 2
    /\ api.content[1].text = <<" ">>
    /\ api.content[2].text = <<"a", "\n">>
    /\ result = <<"a">>

ExitLines == {<<"exit">>, <<"EXIT">>, <<" ", "Exit", " ">>}
EmptyLines == {<<>>, <<" ">>}

\* C7: the loop ends exactly on an "exit" line (in any case) or an
\* interrupt; after anything else it reads the next line; an empty line
\* changes no history and sends no request.
C7_LoopEnds ==
    [][pc = "interactive" =>
         LET readLine == lastEvent' \notin {"interrupt", "input_error"}
             interrupted == lastEvent' \in {"interrupt", "round_interrupted"}
         IN /\ pc' \in {"interactive", "exited"}
            /\ (pc' = "exited") <=> (interrupted \/ (readLine /\ lastInput' \in ExitLines))
            /\ (readLine /\ lastInput' \in EmptyLines)
                   => (history' = history /\ payload' = payload /\ rounds' = rounds)]_vars

C7_Witness ==
    /\ pc = "exited"
    /\ lastEvent = "exit"
    /\ lastInput = <<"EXIT">>
    /\ netKind = "other_exception"
    /\ rounds = 2

AllCreatesOk ==
    /\ createLog # <<>>
    /\ \A i \in 1..Len(createLog) : createLog[i].ok

LastTyped == createLog[Len(createLog)].key

\* C8 as stated: after successful create() calls, load() returns the key
\* given to the last one.
C8_LoadReturnsTypedKey ==
    AllCreatesOk => load_config(configFile, env) = Config(TRUE, LastTyped)

\* C8: after successful create() calls, load() returns the key typed into
\* the last one with its leading and trailing whitespace removed, whatever
\* the earlier keys and the environment variable are.
C8_LoadReturnsStrippedKey ==
    AllCreatesOk =>
        /\ load_config(configFile, env) = Config(TRUE, Strip(LastTyped))
        /\ pc # "nokey"
        /\ pc \in {"oneshot", "interactive"} => apiKey = Strip(LastTyped)

C8_Witness ==
    /\ AllCreatesOk
    /\ Len(createLog) = 2
    /\ createLog[1].key = <<"k2">>
    /\ createLog[2].key = <<" ", "k1", " ">>
    /\ env = SetEnv(<<"ke">>)
    /\ pc = "interactive"
    /\ apiKey = <<"k1">>

\* A source supplies an API key.
KeyAvailable ==
    \/ configFile.state = "json" /\ configFile.has_api_key
    \/ env.set /\ env.value # <<>>

\* C9: the program stops with the run-setup instruction only when no source
\* supplies a key; when the file or the environment supplies one it creates
\* the agent, whatever the state of the file.
C9_NoKeyOnlyWithoutSources ==
    /\ pc = "nokey" => ~KeyAvailable
    /\ (pc # "shell" /\ KeyAvailable) => pc \in {"oneshot", "interactive"}

\* C10: the history is a concatenation of segments, each one plain user
\* turn, then tool-result turns, then at most one assistant turn; the
\* tool-result turns of the last segment follow the order of the bash
\* blocks of the response.
C10_HistoryShape ==
    /\ \A i \in 1..Len(history) :
          /\ i = 1 => IsPlainUser(history[i])
          /\ (i > 1 /\ ~IsPlainUser(history[i])) => ~IsAssistant(history[i - 1])
          /\ IsPlainUser(history[i]) \/ IsToolResult(history[i]) \/ IsAssistant(history[i])
    /\ IsSubSeq(RoundToolResultIds, executed)

C10_Witness ==
    /\ lastEvent = "round"
    /\ shapeError
    /\ rounds = 2
    /\ Len(history) >= 4
    /\ IsToolResult(history[Len(history)])
    /\ IsAssistant(history[Len(history) - 2])

====
